---- MODULE Spec2Model ----
(***************************************************************************)
(* canCoverAll (src/task-2.js): does the union of the camera rectangles    *)
(* cover the target [distanceMin, distanceMax] x [lightMin, lightMax]?     *)
(* The call is modelled as a state machine: Enter (lines 24-105: the       *)
(* short-circuits, filter + clamp, event building and sort, coordinate     *)
(* compression, segment tree construction), one SweepStep per iteration of *)
(* the sweep loop (lines 106-134) and Finish (line 137).                   *)
(*                                                                         *)
(* DeadlineComponent (same file, lines 325-396) is a second state machine: *)
(* the input setter, the two setTimeout callbacks, the interval tick and   *)
(* the destruction of the component, over a clock in milliseconds.         *)
(***************************************************************************)
EXTENDS Integers, Sequences, FiniteSets

\* Coordinates of targets and cameras are drawn from 0..MaxCoord.
MaxCoord == 2
\* Camera lists have at most MaxCams entries.
MaxCams == 2

Coord == 0..MaxCoord

\* Date.now() when the component is constructed, in ms.
StartTime == 100
\* The clock advances in steps of ClockStep ms, up to MaxClock.
ClockStep == 100
MaxClock == 2500
\* secondsUntilDeadline is set to values of 0..MaxSeconds.
MaxSeconds == 2

\* interval(1000)
IntervalPeriod == 1000
\* setTimeout(() => this.setNow(), 100)
SetNowDelay == 100
\* setTimeout(() => this.resetDeadline(secondsAway), 0)
ResetDelay == 0
\* secondsAway * 1000
MsPerSecond == 1000
\* this.deadline - this.now < 1000
LastTick == 1000

VARIABLES
    distanceMin, distanceMax, lightMin, lightMax,  \* the target (arguments)
    cameras,             \* the camera list (argument)
    pc,                  \* "start" | "sweep" | "done"
    validCams,           \* filtered + clamped cameras
    events,              \* sorted event list
    uniqueLightValues,   \* compressed light coordinates, ascending
    segTree,             \* [n, coverCount, coveredLen]
    i,                   \* loop index into events (1-based here, 0-based in JS)
    prevDist,            \* distance of the previously processed event
    result               \* "pending" | "true" | "false"

VARIABLES
    ref,                 \* this.ref: "undefined" | "open" | "closed" Subscription
    deadline,            \* this._deadline
    now,                 \* this.now
    isDeadlineTime,      \* this.isDeadlineTime
    timeouts,            \* pending setTimeout callbacks: [due, run, secondsAway]
    nextTick,            \* when the interval emits next (0: no interval running)
    destroyed,           \* destroyRef has fired
    clock,               \* Date.now()
    lastSeconds,         \* history: the value last assigned to the input, -1 if none
    deadlineSeconds      \* history: the secondsAway of the last resetDeadline, -1 if none

input == <<distanceMin, distanceMax, lightMin, lightMax, cameras>>
call == <<distanceMin, distanceMax, lightMin, lightMax, cameras, pc, validCams,
          events, uniqueLightValues, segTree, i, prevDist, result>>
component == <<ref, deadline, now, isDeadlineTime, timeouts, nextTick, destroyed,
               clock, lastSeconds, deadlineSeconds>>
vars == <<call, component>>

\* The field initialisers of DeadlineComponent, lines 326-334.
Constructed ==
    /\ ref = "undefined"
    /\ deadline = -1
    /\ now = StartTime
    /\ isDeadlineTime = FALSE
    /\ timeouts = {}
    /\ nextTick = 0
    /\ destroyed = FALSE
    /\ clock = StartTime
    /\ lastSeconds = -1
    /\ deadlineSeconds = -1

Max(a, b) == IF a >= b THEN a ELSE b
Min(a, b) == IF a <= b THEN a ELSE b

\* Camera object interface { dMin, dMax, lMin, lMax }: any four numbers.
Camera == [dMin : Coord, dMax : Coord, lMin : Coord, lMax : Coord]

WellFormed(cam) == cam.dMin <= cam.dMax /\ cam.lMin <= cam.lMax

WellFormedCamera == {cam \in Camera : WellFormed(cam)}

SeqsUpTo(S, n) == UNION {[1..k -> S] : k \in 0..n}

-----------------------------------------------------------------------------
(* 1) Filter + clamp, lines 33-49 *)

\* Mutant: the light range is not tested.
OverlapsDistanceOnly(cam, dmin, dmax, lmin, lmax) ==
    /\ cam.dMax >= dmin
    /\ cam.dMin <= dmax

Overlaps(cam, dmin, dmax, lmin, lmax) ==
    /\ cam.dMax >= dmin
    /\ cam.dMin <= dmax
    /\ cam.lMax >= lmin
    /\ cam.lMin <= lmax

\* Mutant: only the distance bounds are clamped.
ClampDistanceOnly(cam, dmin, dmax, lmin, lmax) ==
    [dMin |-> Max(dmin, cam.dMin),
     dMax |-> Min(dmax, cam.dMax),
     lMin |-> cam.lMin,
     lMax |-> cam.lMax]

Clamp(cam, dmin, dmax, lmin, lmax) ==
    [dMin |-> Max(dmin, cam.dMin),
     dMax |-> Min(dmax, cam.dMax),
     lMin |-> Max(lmin, cam.lMin),
     lMax |-> Min(lmax, cam.lMax)]

\* Mutant: the loop stops at the first camera that does not overlap.
RECURSIVE FilterClampBreak(_, _, _, _, _)
FilterClampBreak(cams, dmin, dmax, lmin, lmax) ==
    IF cams = <<>> THEN <<>>
    ELSE LET cam == Head(cams)
         IN  IF cam.dMax >= dmin /\ cam.dMin <= dmax /\ cam.lMax >= lmin /\ cam.lMin <= lmax
             THEN <<[dMin |-> Max(dmin, cam.dMin), dMax |-> Min(dmax, cam.dMax),
                     lMin |-> Max(lmin, cam.lMin), lMax |-> Min(lmax, cam.lMax)]>>
                  \o FilterClampBreak(Tail(cams), dmin, dmax, lmin, lmax)
             ELSE <<>>

RECURSIVE FilterClamp(_, _, _, _, _)
FilterClamp(cams, dmin, dmax, lmin, lmax) ==
    IF cams = <<>> THEN <<>>
    ELSE LET cam == Head(cams)
             rest == FilterClamp(Tail(cams), dmin, dmax, lmin, lmax)
         IN  IF Overlaps(cam, dmin, dmax, lmin, lmax)
             THEN <<Clamp(cam, dmin, dmax, lmin, lmax)>> \o rest
             ELSE rest

-----------------------------------------------------------------------------
(* 2) Events, lines 58-78 *)

\* Mutant: the Remove event of a camera is pushed before its Add event.
RECURSIVE CameraEventsRemoveFirst(_)
CameraEventsRemoveFirst(cams) ==
    IF cams = <<>> THEN <<>>
    ELSE LET cam == Head(cams)
         IN  << [dist |-> cam.dMax, type |-> -1, lMin |-> cam.lMin, lMax |-> cam.lMax],
                [dist |-> cam.dMin, type |-> 1,  lMin |-> cam.lMin, lMax |-> cam.lMax] >>
             \o CameraEventsRemoveFirst(Tail(cams))

RECURSIVE CameraEvents(_)
CameraEvents(cams) ==
    IF cams = <<>> THEN <<>>
    ELSE LET cam == Head(cams)
         IN  << [dist |-> cam.dMin, type |-> 1,  lMin |-> cam.lMin, lMax |-> cam.lMax],
                [dist |-> cam.dMax, type |-> -1, lMin |-> cam.lMin, lMax |-> cam.lMax] >>
             \o CameraEvents(Tail(cams))

BuildEvents(cams, dmin, dmax) ==
    << [dist |-> dmin, type |-> 0, lMin |-> 0, lMax |-> 0],
       [dist |-> dmax, type |-> 0, lMin |-> 0, lMax |-> 0] >>
    \o CameraEvents(cams)

\* Array.prototype.sort with (a, b) => a.dist - b.dist is stable: evs[j] goes
\* after the events of smaller dist and after those of equal dist pushed
\* before it.  EventRank is the position evs[j] is moved to.
EventRank(evs, j) ==
    Cardinality({k \in DOMAIN evs :
                    \/ evs[k].dist - evs[j].dist < 0
                    \/ evs[k].dist - evs[j].dist = 0 /\ k <= j})

\* Mutant: the events are left in the order they were pushed.
SortEventsNone(evs) == evs

SortEvents(evs) ==
    [p \in DOMAIN evs |-> evs[CHOOSE j \in DOMAIN evs : EventRank(evs, j) = p]]

-----------------------------------------------------------------------------
(* 3) Coordinate compression, lines 82-95 *)

\* Mutant: the upper light bounds of the cameras are not collected.
LightCoordsNoMax(cams, lmin, lmax) ==
    {lmin, lmax} \cup {cams[k].lMin : k \in DOMAIN cams}

LightCoords(cams, lmin, lmax) ==
    {lmin, lmax} \cup {cams[k].lMin : k \in DOMAIN cams}
                 \cup {cams[k].lMax : k \in DOMAIN cams}

RECURSIVE SortAscending(_)
SortAscending(S) ==
    IF S = {} THEN <<>>
    ELSE LET m == CHOOSE x \in S : \A y \in S : x <= y
         IN  <<m>> \o SortAscending(S \ {m})

\* lightIndex.get(val): the 0-based position of val in uniqueLightValues.
LightIndex(coords, val) == (CHOOSE k \in DOMAIN coords : coords[k] = val) - 1

-----------------------------------------------------------------------------
(* 4) SegmentTree, lines 146-225.  Arrays are functions on 0..4n-1; a read   *)
(* outside the array yields undefined.                                       *)

RECURSIVE Build(_, _, _, _)
Build(tree, idx, left, right) ==
    IF left > right THEN tree
    ELSE IF left = right
         THEN [tree EXCEPT !.coveredLen[idx] = 0]
         ELSE LET mid == (left + right) \div 2
                  t1  == Build(tree, 2 * idx, left, mid)
                  t2  == Build(t1, 2 * idx + 1, mid + 1, right)
              IN  [t2 EXCEPT !.coveredLen[idx] = 0]

NewSegmentTree(coords) ==
    LET n == Len(coords) - 1
    IN  Build([n          |-> n,
               coverCount |-> [k \in 0..(4 * n - 1) |-> 0],
               coveredLen |-> [k \in 0..(4 * n - 1) |-> 0]],
              1, 0, n - 1)

\* Mutant: a node counts as covered only when exactly one camera covers it.
RecomputeCountOne(tree, coords, idx, left, right) ==
    IF tree.coverCount[idx] = 1
    THEN [tree EXCEPT !.coveredLen[idx] = coords[right + 2] - coords[left + 1]]
    ELSE IF left = right
         THEN [tree EXCEPT !.coveredLen[idx] = 0]
         ELSE [tree EXCEPT !.coveredLen[idx] =
                               tree.coveredLen[2 * idx] + tree.coveredLen[2 * idx + 1]]

\* Mutant: the span of a covered node ends at coords[right], not coords[right + 1].
RecomputeOffByOne(tree, coords, idx, left, right) ==
    IF tree.coverCount[idx] > 0
    THEN [tree EXCEPT !.coveredLen[idx] = coords[right + 1] - coords[left + 1]]
    ELSE IF left = right
         THEN [tree EXCEPT !.coveredLen[idx] = 0]
         ELSE [tree EXCEPT !.coveredLen[idx] =
                               tree.coveredLen[2 * idx] + tree.coveredLen[2 * idx + 1]]

\* The recompute at the end of _updateRange, lines 204-214.
Recompute(tree, coords, idx, left, right) ==
    IF tree.coverCount[idx] > 0
    THEN [tree EXCEPT !.coveredLen[idx] = coords[right + 2] - coords[left + 1]]
    ELSE IF left = right
         THEN [tree EXCEPT !.coveredLen[idx] = 0]
         ELSE [tree EXCEPT !.coveredLen[idx] =
                               tree.coveredLen[2 * idx] + tree.coveredLen[2 * idx + 1]]

\* Mutant: coveredLen is recomputed only at the nodes whose count changed,
\* not at their ancestors.
RECURSIVE UpdateRangeNoPullUp(_, _, _, _, _, _, _, _)
UpdateRangeNoPullUp(tree, coords, idx, left, right, ql, qr, delta) ==
    IF ql > right \/ qr < left THEN tree
    ELSE IF ql <= left /\ right <= qr
         THEN Recompute([tree EXCEPT !.coverCount[idx] = @ + delta], coords, idx, left, right)
         ELSE LET mid == (left + right) \div 2
                  tl  == UpdateRangeNoPullUp(tree, coords, 2 * idx, left, mid, ql, qr, delta)
              IN  UpdateRangeNoPullUp(tl, coords, 2 * idx + 1, mid + 1, right, ql, qr, delta)

RECURSIVE UpdateRange(_, _, _, _, _, _, _, _)
UpdateRange(tree, coords, idx, left, right, ql, qr, delta) ==
    IF ql > right \/ qr < left THEN tree
    ELSE LET t1 ==
                 IF ql <= left /\ right <= qr
                 THEN [tree EXCEPT !.coverCount[idx] = @ + delta]
                 ELSE LET mid == (left + right) \div 2
                          tl  == UpdateRange(tree, coords, 2 * idx, left, mid, ql, qr, delta)
                      IN  UpdateRange(tl, coords, 2 * idx + 1, mid + 1, right, ql, qr, delta)
         IN  Recompute(t1, coords, idx, left, right)

Update(tree, coords, uLeft, uRight, delta) ==
    IF uLeft > uRight THEN tree
    ELSE UpdateRange(tree, coords, 1, 0, tree.n - 1, uLeft, uRight - 1, delta)

\* this.coveredLen[1]; undefined when the array has no index 1 (n = 0).
GetCoveredLength(tree) ==
    IF 1 \in DOMAIN tree.coveredLen
    THEN [defined |-> TRUE, value |-> tree.coveredLen[1]]
    ELSE [defined |-> FALSE, value |-> 0]

\* Mutant: coveredLen <= totalLen.
LessThanOrEqual(len, totalLen) == len.defined /\ len.value <= totalLen

\* coveredLen < totalLen; a comparison with undefined is false.
LessThan(len, totalLen) == len.defined /\ len.value < totalLen

-----------------------------------------------------------------------------
(* 5) One iteration of the sweep loop, lines 107-133 *)

\* The coverage check of lines 110-121: TRUE when the loop returns false.
GapUncovered(tree, ev, prev, dmin, dmax, totalLen) ==
    /\ ev.dist > prev
    /\ Min(ev.dist, dmax) > Max(prev, dmin)
    /\ LessThan(GetCoveredLength(tree), totalLen)

\* Lines 124-131: apply the event to the tree.
ApplyEvent(tree, coords, ev) ==
    IF ev.type # 0
    THEN Update(tree, coords, LightIndex(coords, ev.lMin), LightIndex(coords, ev.lMax),
                IF ev.type > 0 THEN 1 ELSE -1)
    ELSE tree

\* Mutant: the event is applied before the gap in front of it is checked.
TreeAtCheckAfterApply(tree, coords, ev) == ApplyEvent(tree, coords, ev)

\* The tree that the check of lines 110-121 reads: the event of this iteration
\* is applied only afterwards, lines 124-131.
TreeAtCheck(tree, coords, ev) == tree

RECURSIVE Sweep(_, _, _, _, _, _, _, _)
Sweep(evs, k, tree, coords, prev, dmin, dmax, totalLen) ==
    IF k > Len(evs) THEN TRUE
    ELSE IF GapUncovered(TreeAtCheck(tree, coords, evs[k]), evs[k], prev, dmin, dmax,
                         totalLen) THEN FALSE
    ELSE Sweep(evs, k + 1, ApplyEvent(tree, coords, evs[k]), coords, evs[k].dist,
               dmin, dmax, totalLen)

\* The whole call as a function of its arguments, lines 24-138.
canCoverAll(dmin, dmax, lmin, lmax, cams) ==
    IF dmin = dmax /\ lmin = lmax THEN TRUE
    ELSE IF Len(cams) = 0 THEN FALSE
    ELSE LET valid == FilterClamp(cams, dmin, dmax, lmin, lmax)
         IN  IF Len(valid) = 0 THEN FALSE
             ELSE LET evs    == SortEvents(BuildEvents(valid, dmin, dmax))
                      coords == SortAscending(LightCoords(valid, lmin, lmax))
                  IN  Sweep(evs, 1, NewSegmentTree(coords), coords, evs[1].dist,
                            dmin, dmax, lmax - lmin)

-----------------------------------------------------------------------------
(* The call as a state machine *)

EmptyTree == [n |-> 0, coverCount |-> <<>>, coveredLen |-> <<>>]

Start(targets, cams) ==
    /\ Constructed
    /\ \E t \in targets :
           /\ distanceMin = t[1] /\ distanceMax = t[2]
           /\ lightMin = t[3] /\ lightMax = t[4]
    /\ cameras \in SeqsUpTo(cams, MaxCams)
    /\ pc = "start"
    /\ validCams = <<>>
    /\ events = <<>>
    /\ uniqueLightValues = <<>>
    /\ segTree = EmptyTree
    /\ i = 1
    /\ prevDist = 0
    /\ result = "pending"

Targets == Coord \X Coord \X Coord \X Coord

WellFormedTarget(t) == t[1] <= t[2] /\ t[3] <= t[4]

\* Any target, well-formed cameras.
Init == Start(Targets, WellFormedCamera)

Return(b) ==
    /\ pc' = "done"
    /\ result' = IF b THEN "true" ELSE "false"

\* Mutant: the empty list is tested before the degenerate target.
EnterDegenerateAfterEmpty ==
    /\ pc = "start"
    /\ distanceMin = distanceMax /\ lightMin = lightMax
    /\ Return(Len(cameras) # 0)
    /\ UNCHANGED <<component, input, validCams, events, uniqueLightValues, segTree, i, prevDist>>

\* Lines 26-27: nothing to intersect with.
EnterDegenerate ==
    /\ pc = "start"
    /\ distanceMin = distanceMax /\ lightMin = lightMax
    /\ Return(TRUE)
    /\ UNCHANGED <<component, input, validCams, events, uniqueLightValues, segTree, i, prevDist>>

\* Lines 28-29: no cameras.
EnterNoCameras ==
    /\ pc = "start"
    /\ ~(distanceMin = distanceMax /\ lightMin = lightMax)
    /\ Len(cameras) = 0
    /\ Return(FALSE)
    /\ UNCHANGED <<component, input, validCams, events, uniqueLightValues, segTree, i, prevDist>>

\* Mutant: an empty filtered list is answered true.
EnterNoValidCamsTrue ==
    /\ pc = "start"
    /\ ~(distanceMin = distanceMax /\ lightMin = lightMax)
    /\ Len(cameras) # 0
    /\ LET valid == FilterClamp(cameras, distanceMin, distanceMax, lightMin, lightMax)
       IN  Len(valid) = 0 /\ validCams' = valid
    /\ Return(TRUE)
    /\ UNCHANGED <<component, input, events, uniqueLightValues, segTree, i, prevDist>>

\* Lines 33-53: every camera is filtered out.
EnterNoValidCams ==
    /\ pc = "start"
    /\ ~(distanceMin = distanceMax /\ lightMin = lightMax)
    /\ Len(cameras) # 0
    /\ LET valid == FilterClamp(cameras, distanceMin, distanceMax, lightMin, lightMax)
       IN  Len(valid) = 0 /\ validCams' = valid
    /\ Return(FALSE)
    /\ UNCHANGED <<component, input, events, uniqueLightValues, segTree, i, prevDist>>

\* Lines 33-105: filter, events, sort, compression, tree; the loop is entered.
\* valid, pushed, evs and coords are the locals validCams, events (as pushed,
\* as sorted) and uniqueLightValues, each computed once.
EnterSweep ==
    /\ pc = "start"
    /\ ~(distanceMin = distanceMax /\ lightMin = lightMax)
    /\ Len(cameras) # 0
    /\ \E valid \in {FilterClamp(cameras, distanceMin, distanceMax, lightMin, lightMax)} :
       \E pushed \in {BuildEvents(valid, distanceMin, distanceMax)} :
       \E evs \in {SortEvents(pushed)} :
       \E coords \in {SortAscending(LightCoords(valid, lightMin, lightMax))} :
           /\ Len(valid) # 0
           /\ validCams' = valid
           /\ events' = evs
           /\ uniqueLightValues' = coords
           /\ segTree' = NewSegmentTree(coords)
           /\ prevDist' = evs[1].dist
    /\ i' = 1
    /\ pc' = "sweep"
    /\ UNCHANGED <<component, input, result>>

\* Lines 110-119: the gap before events[i] is not covered.
SweepGap ==
    /\ pc = "sweep"
    /\ i <= Len(events)
    /\ GapUncovered(TreeAtCheck(segTree, uniqueLightValues, events[i]), events[i],
                    prevDist, distanceMin, distanceMax, lightMax - lightMin)
    /\ Return(FALSE)
    /\ UNCHANGED <<component, input, validCams, events, uniqueLightValues, segTree, i, prevDist>>

\* Mutant: a Boundary event is skipped without advancing the loop index.
SweepStepSkipBoundary ==
    /\ pc = "sweep"
    /\ i <= Len(events)
    /\ ~GapUncovered(TreeAtCheck(segTree, uniqueLightValues, events[i]), events[i],
                     prevDist, distanceMin, distanceMax, lightMax - lightMin)
    /\ segTree' = ApplyEvent(segTree, uniqueLightValues, events[i])
    /\ prevDist' = events[i].dist
    /\ i' = IF events[i].type = 0 THEN i ELSE i + 1
    /\ UNCHANGED <<component, input, pc, validCams, events, uniqueLightValues, result>>

\* Lines 107-133: the check passes, the event is applied.
SweepStep ==
    /\ pc = "sweep"
    /\ i <= Len(events)
    /\ ~GapUncovered(TreeAtCheck(segTree, uniqueLightValues, events[i]), events[i],
                     prevDist, distanceMin, distanceMax, lightMax - lightMin)
    /\ segTree' = ApplyEvent(segTree, uniqueLightValues, events[i])
    /\ prevDist' = events[i].dist
    /\ i' = i + 1
    /\ UNCHANGED <<component, input, pc, validCams, events, uniqueLightValues, result>>

\* Line 137: the loop ran out.
Finish ==
    /\ pc = "sweep"
    /\ i > Len(events)
    /\ Return(TRUE)
    /\ UNCHANGED <<component, input, validCams, events, uniqueLightValues, segTree, i, prevDist>>

Next ==
    \/ EnterDegenerate
    \/ EnterNoCameras
    \/ EnterNoValidCams
    \/ EnterSweep
    \/ SweepGap
    \/ SweepStep
    \/ Finish

Spec == Init /\ [][Next]_vars

\* The call is one synchronous computation: a step that can be taken is taken.
SpecFair == Init /\ [][Next]_vars /\ WF_vars(Next)

\* Well-formed targets, any cameras: dMin > dMax and lMin > lMax included.
InitAnyCamera == Start({t \in Targets : WellFormedTarget(t)}, Camera)

SpecAnyCamera == InitAnyCamera /\ [][Next]_vars

\* Every order of evs that a sort by dist may produce when it gives no
\* guarantee for equal keys: S is the set of positions not yet placed.
RECURSIVE TieOrders(_, _)
TieOrders(evs, S) ==
    IF S = {} THEN {<<>>}
    ELSE UNION {{<<evs[k]>> \o t : t \in TieOrders(evs, S \ {k})} :
                   k \in {k \in S : \A j \in S : evs[k].dist <= evs[j].dist}}

\* Lines 33-105 with a sort that orders equal distances arbitrarily.
EnterSweepAnyOrder ==
    /\ pc = "start"
    /\ ~(distanceMin = distanceMax /\ lightMin = lightMax)
    /\ Len(cameras) # 0
    /\ LET valid  == FilterClamp(cameras, distanceMin, distanceMax, lightMin, lightMax)
           pushed == BuildEvents(valid, distanceMin, distanceMax)
           coords == SortAscending(LightCoords(valid, lightMin, lightMax))
       IN  /\ Len(valid) # 0
           /\ validCams' = valid
           /\ \E evs \in TieOrders(pushed, DOMAIN pushed) :
                  /\ events' = evs
                  /\ prevDist' = evs[1].dist
           /\ uniqueLightValues' = coords
           /\ segTree' = NewSegmentTree(coords)
    /\ i' = 1
    /\ pc' = "sweep"
    /\ UNCHANGED <<component, input, result>>

NextAnyOrder ==
    \/ EnterDegenerate
    \/ EnterNoCameras
    \/ EnterNoValidCams
    \/ EnterSweepAnyOrder
    \/ SweepGap
    \/ SweepStep
    \/ Finish

\* Light coordinates of the inputs of SpecAnyOrder are drawn from
\* 0..MaxTieLight; distances from 0..MaxCoord, where the ties are.
MaxTieLight == 1

\* Well-formed targets and cameras.
InitAnyOrder ==
    Start({t \in Targets : WellFormedTarget(t) /\ t[4] <= MaxTieLight},
          {c \in WellFormedCamera : c.lMax <= MaxTieLight})

SpecAnyOrder == InitAnyOrder /\ [][NextAnyOrder]_vars

-----------------------------------------------------------------------------
(* DeadlineComponent, lines 325-396 *)

\* resetDeadline, lines 380-382, through the deadline setter, lines 352-355.
ResetDeadline(secondsAway) ==
    /\ deadline' = secondsAway * MsPerSecond + now
    /\ deadlineSeconds' = secondsAway

\* setNow, lines 384-395.
SetNow ==
    /\ now' = clock
    /\ isDeadlineTime' = IF deadline = 0 THEN isDeadlineTime
                                         ELSE deadline - clock < LastTick

\* The input setter, lines 340-346.  A Subscription is truthy, closed or not.
\* The first assignment subscribes generateDeadline, lines 363-378: the two
\* taps schedule their timeouts and switchMap starts the interval.
SetInput(secondsAway) ==
    /\ ~destroyed
    /\ lastSeconds' = secondsAway
    /\ IF ref # "undefined"
       THEN /\ ResetDeadline(secondsAway)
            /\ UNCHANGED <<ref, timeouts, nextTick>>
       ELSE /\ ref' = "open"
            /\ timeouts' = {[due |-> clock + ResetDelay, run |-> "resetDeadline",
                             secondsAway |-> secondsAway],
                            [due |-> clock + SetNowDelay, run |-> "setNow",
                             secondsAway |-> secondsAway]}
            /\ nextTick' = clock + IntervalPeriod
            /\ UNCHANGED <<deadline, deadlineSeconds>>
    /\ UNCHANGED <<now, isDeadlineTime, destroyed, clock, call>>

\* The timeout t is the next callback to run.
Due(t) == t.due <= clock /\ \A u \in timeouts : t.due <= u.due

\* Line 366: the callback () => this.resetDeadline(secondsAway).
TimeoutResetDeadline ==
    \E t \in timeouts :
        /\ Due(t) /\ t.run = "resetDeadline"
        /\ timeouts' = timeouts \ {t}
        /\ ResetDeadline(t.secondsAway)
        /\ UNCHANGED <<ref, now, isDeadlineTime, nextTick, destroyed, clock,
                       lastSeconds, call>>

\* Line 372: the callback () => this.setNow().
TimeoutSetNow ==
    \E t \in timeouts :
        /\ Due(t) /\ t.run = "setNow"
        /\ timeouts' = timeouts \ {t}
        /\ SetNow
        /\ UNCHANGED <<ref, deadline, deadlineSeconds, nextTick, destroyed, clock,
                       lastSeconds, call>>

\* Lines 373-375: the interval emits, tap calls setNow, takeWhile completes
\* the subscription once isDeadlineTime is true.
Tick ==
    /\ ref = "open"
    /\ nextTick <= clock
    /\ \A u \in timeouts : u.due > nextTick
    /\ SetNow
    /\ IF isDeadlineTime'
       THEN ref' = "closed" /\ nextTick' = 0
       ELSE ref' = ref /\ nextTick' = nextTick + IntervalPeriod
    /\ UNCHANGED <<deadline, deadlineSeconds, timeouts, destroyed, clock,
                   lastSeconds, call>>

\* Line 376: takeUntilDestroyed completes the subscription.
Destroy ==
    /\ ~destroyed
    /\ destroyed' = TRUE
    /\ ref' = IF ref = "open" THEN "closed" ELSE ref
    /\ nextTick' = 0
    /\ UNCHANGED <<deadline, deadlineSeconds, now, isDeadlineTime, timeouts, clock,
                   lastSeconds, call>>

\* Time passes while no callback is due.
Elapse ==
    /\ clock + ClockStep <= MaxClock
    /\ \A u \in timeouts : u.due > clock
    /\ ~(ref = "open" /\ nextTick <= clock)
    /\ clock' = clock + ClockStep
    /\ UNCHANGED <<ref, deadline, deadlineSeconds, now, isDeadlineTime, timeouts,
                   nextTick, destroyed, lastSeconds, call>>

NextDeadline ==
    \/ \E secondsAway \in 0..MaxSeconds : SetInput(secondsAway)
    \/ TimeoutResetDeadline
    \/ TimeoutSetNow
    \/ Tick
    \/ Destroy
    \/ Elapse

\* The component alone: no call of canCoverAll is in progress.
InitDeadline == Start({<<0, 0, 0, 0>>}, {})

SpecDeadline == InitDeadline /\ [][NextDeadline]_vars

-----------------------------------------------------------------------------
(* Vocabulary of the properties *)

Done == pc = "done"

TargetWellFormed == distanceMin <= distanceMax /\ lightMin <= lightMax

PositiveArea == distanceMin < distanceMax /\ lightMin < lightMax

FullyDegenerate == distanceMin = distanceMax /\ lightMin = lightMax

CamSet == {cameras[k] : k \in DOMAIN cameras}

Cam(d0, d1, l0, l1) == [dMin |-> d0, dMax |-> d1, lMin |-> l0, lMax |-> l1]

\* The camera list of the example usage, lines 230-234.
ExampleCameras == <<Cam(0, 10, 0, 5), Cam(0, 10, 5, 10), Cam(10, 20, 0, 10)>>

\* All bounds are integers, so the closed target is covered by closed
\* rectangles iff every point with half-integer coordinates is: each open
\* unit cell and each open unit edge is represented by its midpoint.
\* Points are given by their doubled coordinates.
PointCovered(x2, y2, cams) ==
    \E k \in DOMAIN cams :
        /\ 2 * cams[k].dMin <= x2 /\ x2 <= 2 * cams[k].dMax
        /\ 2 * cams[k].lMin <= y2 /\ y2 <= 2 * cams[k].lMax

TargetCovered(dmin, dmax, lmin, lmax, cams) ==
    \A x2 \in (2 * dmin)..(2 * dmax), y2 \in (2 * lmin)..(2 * lmax) :
        PointCovered(x2, y2, cams)

\* The call as a state machine and as a function give the same value.
SweepAgreesWithFunction ==
    Done => ((result = "true") <=>
             canCoverAll(distanceMin, distanceMax, lightMin, lightMax, cameras))

-----------------------------------------------------------------------------
\* C1: for a well-formed target and well-formed rectangles, canCoverAll
\* returns true iff every point of the closed target rectangle lies in some
\* closed input rectangle, also when the target is degenerate on exactly one
\* axis.  (The target that is degenerate on both axes is left out here: it is
\* answered true by convention, see C7.)
C1_TrueIffCovered ==
    (Done /\ TargetWellFormed /\ ~FullyDegenerate) =>
        ((result = "true") <=>
         TargetCovered(distanceMin, distanceMax, lightMin, lightMax, cameras))

\* What the code does satisfy: the equivalence for targets of positive area.
CoverageCorrectOnPositiveArea ==
    (Done /\ PositiveArea) =>
        ((result = "true") <=>
         TargetCovered(distanceMin, distanceMax, lightMin, lightMax, cameras))

-----------------------------------------------------------------------------
\* Light points (doubled) of the target that the cameras of S leave uncovered.
LightCoveredBy(S) ==
    \A y2 \in (2 * lightMin)..(2 * lightMax) :
        \E c \in S : 2 * c.lMin <= y2 /\ y2 <= 2 * c.lMax

\* Sub-intervals [a, b] of positive length of [distanceMin, distanceMax].  A
\* sub-interval with real endpoints has the same cameras across it as the
\* integer sub-interval [floor a, ceil b].
SubIntervals ==
    {ab \in (distanceMin..distanceMax) \X (distanceMin..distanceMax) : ab[1] < ab[2]}

\* No camera begins or ends strictly inside [a, b].
BoundaryFree(ab) ==
    \A c \in CamSet :
        /\ ~(ab[1] < c.dMin /\ c.dMin < ab[2])
        /\ ~(ab[1] < c.dMax /\ c.dMax < ab[2])

\* The cameras whose distance range contains [a, b].
Containing(ab) == {c \in CamSet : c.dMin <= ab[1] /\ ab[2] <= c.dMax}

\* The cameras whose distance range meets [a, b] in positive length.
Across(ab) == {c \in CamSet : Max(c.dMin, ab[1]) < Min(c.dMax, ab[2])}

ExamplePartial == canCoverAll(0, 10, 0, 10, <<Cam(0, 10, 0, 5)>>)

ExampleOutOfRange == canCoverAll(8, 50, 0, 10, ExampleCameras)

-----------------------------------------------------------------------------
\* C3: monotonicity.  The camera list is R ++ S for each of its prefixes R:
\* if canCoverAll(target, R) is true, so is the call on the whole list.
C3_Monotone ==
    (Done /\ TargetWellFormed) =>
        \A k \in 0..Len(cameras) :
            canCoverAll(distanceMin, distanceMax, lightMin, lightMax,
                        SubSeq(cameras, 1, k))
                => result = "true"

\* R alone covers a target of positive area and S adds an overlapping camera.
C3_Witness ==
    /\ Done /\ PositiveArea /\ result = "true"
    /\ Len(cameras) = 2
    /\ canCoverAll(distanceMin, distanceMax, lightMin, lightMax, SubSeq(cameras, 1, 1))
    /\ Overlaps(cameras[2], distanceMin, distanceMax, lightMin, lightMax)

-----------------------------------------------------------------------------
\* C4: a rectangle with dMin > dMax or lMin > lMax is rejected with an
\* InvalidRectangle error before filtering: no boolean is returned and the
\* rectangle never reaches the clipped list or the events.
C4_InvalidRectangleRejected ==
    (pc # "start" /\ \E k \in DOMAIN cameras : ~WellFormed(cameras[k])) =>
        /\ result = "InvalidRectangle"
        /\ validCams = <<>>
        /\ events = <<>>

-----------------------------------------------------------------------------
\* C5: a target with distanceMin > distanceMax or lightMin > lightMax is
\* rejected with an InvalidRange error: no partial computation, no boolean.
C5_InvalidRangeRejected ==
    (pc # "start" /\ ~TargetWellFormed) =>
        /\ result = "InvalidRange"
        /\ validCams = <<>>
        /\ events = <<>>

-----------------------------------------------------------------------------
Reorderings(s) ==
    {[k \in DOMAIN s |-> s[f[k]]] :
        f \in {g \in [DOMAIN s -> DOMAIN s] : \A x, y \in DOMAIN s : x # y => g[x] # g[y]}}

\* C6: order irrelevance.  Every permutation of the camera list gives the
\* result of the call, for every target.
C6_OrderIrrelevant ==
    Done =>
        \A p \in Reorderings(cameras) :
            canCoverAll(distanceMin, distanceMax, lightMin, lightMax, p)
                <=> (result = "true")

\* Two different cameras, both kept by the filter, in a sweep that ran to its end.
C6_Witness ==
    /\ Done /\ PositiveArea /\ result = "true"
    /\ Len(cameras) = 2 /\ cameras[1] # cameras[2]
    /\ Len(validCams) = 2
    /\ validCams[1].dMin # validCams[2].dMin

-----------------------------------------------------------------------------
ExampleDegenerate == canCoverAll(0, 0, 0, 0, ExampleCameras)

\* C7: for distanceMin = distanceMax and lightMin = lightMax the call returns
\* true for every rectangle list, the empty one included, and builds neither
\* events nor a segment tree.
C7_DegenerateTrue ==
    /\ (Done /\ FullyDegenerate) =>
          /\ result = "true"
          /\ validCams = <<>>
          /\ events = <<>>
          /\ uniqueLightValues = <<>>
          /\ segTree = EmptyTree
    /\ ExampleDegenerate = TRUE

\* A degenerate target answered true although no camera holds its point.
C7_Witness ==
    /\ Done /\ FullyDegenerate /\ result = "true"
    /\ Len(cameras) = 2
    /\ ~TargetCovered(distanceMin, distanceMax, lightMin, lightMax, cameras)

\* The empty list on a degenerate target.
C7_WitnessEmpty == Done /\ FullyDegenerate /\ cameras = <<>> /\ result = "true"

-----------------------------------------------------------------------------
ExampleNoCameras == canCoverAll(0, 10, 0, 10, <<>>)

\* C8: for a target with distanceMin < distanceMax or lightMin < lightMax
\* the call returns false when the list is empty and when the overlap filter
\* drops every rectangle.
C8_EmptyFalse ==
    /\ (/\ Done
        /\ distanceMin < distanceMax \/ lightMin < lightMax
        /\ \A k \in DOMAIN cameras :
               ~Overlaps(cameras[k], distanceMin, distanceMax, lightMin, lightMax))
          => result = "false"
    /\ ExampleNoCameras = FALSE

\* A non-empty list of which the filter keeps nothing.
C8_Witness ==
    /\ Done /\ TargetWellFormed /\ ~FullyDegenerate
    /\ Len(cameras) = 2
    /\ \A k \in DOMAIN cameras :
           ~Overlaps(cameras[k], distanceMin, distanceMax, lightMin, lightMax)
    /\ result = "false"

-----------------------------------------------------------------------------
Outside(r) ==
    \/ r.dMax < distanceMin
    \/ r.dMin > distanceMax
    \/ r.lMax < lightMin
    \/ r.lMin > lightMax

\* s without its k-th element.
Without(s, k) == SubSeq(s, 1, k - 1) \o SubSeq(s, k + 1, Len(s))

\* C9: out-of-range rectangles contribute nothing.  The camera list is R with
\* r inserted at position k, for each k whose camera lies outside the
\* target: the call on R gives the same result.
C9_OutsideContributesNothing ==
    Done =>
        \A k \in DOMAIN cameras :
            (WellFormed(cameras[k]) /\ Outside(cameras[k])) =>
                (canCoverAll(distanceMin, distanceMax, lightMin, lightMax,
                             Without(cameras, k))
                    <=> (result = "true"))

\* An outside camera placed before a camera that covers the target.
C9_Witness ==
    /\ Done /\ TargetWellFormed /\ ~FullyDegenerate /\ result = "true"
    /\ Len(cameras) = 2
    /\ Outside(cameras[1])
    /\ ~Outside(cameras[2])

-----------------------------------------------------------------------------
\* The events applied so far in the sweep are events[1..i-1].
Applied(a, ty) ==
    Cardinality({k \in 1..(i - 1) :
                    events[k].type = ty /\ events[k].lMin = a[1] /\ events[k].lMax = a[2]})

\* Clipped light intervals <<lMin, lMax>> of the envelopes that are open:
\* added and not yet removed.
OpenIntervals == {a \in Coord \X Coord : Applied(a, 1) > Applied(a, -1)}

ExampleAdjacent == canCoverAll(0, 10, 0, 10, <<Cam(0, 10, 0, 5), Cam(0, 10, 5, 10)>>)

\* C10: boundary adjacency.  When two open envelopes have light intervals
\* [x, y] and [y, z] with x < z, getCoveredLength is at least z - x (no gap at
\* y), at most lightMax - lightMin, and exactly z - x when no other interval
\* is open (no double counting at y).
C10_AdjacentCombine ==
    /\ (pc = "sweep") =>
          \A a, b \in OpenIntervals :
              (a[2] = b[1] /\ a[1] < b[2]) =>
                  LET len == GetCoveredLength(segTree)
                  IN  /\ len.defined
                      /\ len.value >= b[2] - a[1]
                      /\ len.value <= lightMax - lightMin
                      /\ (OpenIntervals = {a, b} => len.value = b[2] - a[1])
    /\ ExampleAdjacent = TRUE

\* Two open envelopes of positive light length that meet at coordinate 1.
C10_Witness ==
    /\ pc = "sweep"
    /\ OpenIntervals = {<<0, 1>>, <<1, 2>>}
    /\ GetCoveredLength(segTree).value = 2

-----------------------------------------------------------------------------
\* The loop is about to make a coverage check: lines 110-113 pass.
AtCheck ==
    /\ pc = "sweep"
    /\ i <= Len(events)
    /\ events[i].dist > prevDist
    /\ Min(events[i].dist, distanceMax) > Max(prevDist, distanceMin)

GapLeft == Max(prevDist, distanceMin)

GapRight == Min(events[i].dist, distanceMax)

\* How many of events[1..k] equal ev.
CountEvents(ev, k) == Cardinality({j \in 1..k : events[j] = ev})

LightOf(c) == <<c.lMin, c.lMax>>

\* C11: sweep snapshot.  At every coverage check of a gap (left, right) with
\* right > left: every Add and Remove event at a distance <= left has been
\* applied, none at a distance >= right has, and none lies strictly inside the
\* gap; so the open envelopes (+1 applied, -1 not) are exactly the clipped
\* rectangles c with c.dMin <= left and c.dMax >= right.
C11_SweepSnapshot ==
    AtCheck =>
        /\ \A j \in DOMAIN events :
               /\ ~(GapLeft < events[j].dist /\ events[j].dist < GapRight)
               /\ events[j].type # 0 =>
                      CountEvents(events[j], i - 1) =
                          IF events[j].dist <= GapLeft
                          THEN CountEvents(events[j], Len(events))
                          ELSE 0
        /\ \A a \in Coord \X Coord :
               Applied(a, 1) - Applied(a, -1) =
                   Cardinality({k \in DOMAIN validCams :
                                   /\ LightOf(validCams[k]) = a
                                   /\ validCams[k].dMin <= GapLeft
                                   /\ validCams[k].dMax >= GapRight})

\* A check with one envelope open, one already removed and so not counted.
C11_Witness ==
    /\ AtCheck /\ TargetWellFormed
    /\ Len(validCams) = 2
    /\ \E k \in DOMAIN validCams : validCams[k].dMax <= GapLeft
    /\ \E k \in DOMAIN validCams :
           validCams[k].dMin <= GapLeft /\ validCams[k].dMax >= GapRight

-----------------------------------------------------------------------------
\* Length of [lo, hi] covered by the union of the open light intervals: the
\* bounds are integers, so the union is made of whole unit cells [y, y + 1].
CoveredUnits(lo, hi) ==
    Cardinality({y \in lo..(hi - 1) :
                    \E a \in OpenIntervals : a[1] <= y /\ y + 1 <= a[2]})

\* The previous iteration of the loop applied an update to the tree.
AfterUpdate == pc = "sweep" /\ i > 1 /\ events[i - 1].type # 0

\* C12: after every update of a sweep over well-formed input,
\* getCoveredLength() is the exact length of the union of the clipped light
\* intervals of the open envelopes, a number between 0 and lightMax - lightMin.
C12_RootLengthExact ==
    (AfterUpdate /\ TargetWellFormed) =>
        LET len == GetCoveredLength(segTree)
        IN  /\ len.defined
            /\ len.value = CoveredUnits(lightMin, lightMax)
            /\ 0 <= len.value /\ len.value <= lightMax - lightMin

\* What the code does satisfy: the same, when the light range has positive
\* length, so that the tree has a root.
RootLengthExactOnPositiveLight ==
    (AfterUpdate /\ TargetWellFormed /\ lightMin < lightMax) => C12_RootLengthExact

-----------------------------------------------------------------------------
\* The nodes of the tree below (idx, left, right), as _build and _updateRange
\* walk them; under: some proper ancestor has coverCount > 0.
RECURSIVE TreeNodes(_, _, _, _)
TreeNodes(idx, left, right, under) ==
    IF left > right THEN {}
    ELSE {[idx |-> idx, left |-> left, right |-> right, under |-> under]} \cup
         IF left = right THEN {}
         ELSE LET mid  == (left + right) \div 2
                  below == under \/ segTree.coverCount[idx] > 0
              IN  TreeNodes(2 * idx, left, mid, below)
                  \cup TreeNodes(2 * idx + 1, mid + 1, right, below)

AllNodes == TreeNodes(1, 0, segTree.n - 1, FALSE)

\* The node's cached length is the covered length of its span
\* [coords[left], coords[right + 1]].
NodeExact(node) ==
    segTree.coveredLen[node.idx] =
        CoveredUnits(uniqueLightValues[node.left + 1], uniqueLightValues[node.right + 2])

-----------------------------------------------------------------------------
\* How many of events[1..j] have type ty and light interval a.
PrefixCount(a, ty, j) ==
    Cardinality({k \in 1..j :
                    events[k].type = ty /\ events[k].lMin = a[1] /\ events[k].lMax = a[2]})

\* C14: for well-formed input no node's coverCount is ever negative: in the
\* sorted event list each clipped rectangle's +1 comes before its -1, also
\* when dMin = dMax (in every prefix, per light interval, the Removes do not
\* outnumber the Adds), and the two updates meet the same nodes, so that all
\* counts are 0 again once every event is applied.
C14_CountsNonNegative ==
    (pc \in {"sweep", "done"} /\ TargetWellFormed) =>
        /\ \A idx \in DOMAIN segTree.coverCount : segTree.coverCount[idx] >= 0
        /\ \A a \in Coord \X Coord, j \in 0..Len(events) :
               PrefixCount(a, -1, j) <= PrefixCount(a, 1, j)
        /\ (pc = "sweep" /\ i > Len(events)) =>
               \A idx \in DOMAIN segTree.coverCount :
                   segTree.coverCount[idx] = 0 /\ segTree.coveredLen[idx] = 0

\* A rectangle clipped to a single distance with a positive light length:
\* its +1 is applied, its -1 is the next event.
C14_Witness ==
    /\ pc = "sweep" /\ TargetWellFormed
    /\ i > 1 /\ i <= Len(events)
    /\ events[i - 1].type = 1 /\ events[i].type = -1
    /\ events[i - 1].dist = events[i].dist
    /\ events[i].lMin < events[i].lMax
    /\ LightOf(events[i - 1]) = LightOf(events[i])
    /\ \E idx \in DOMAIN segTree.coverCount : segTree.coverCount[idx] = 1

-----------------------------------------------------------------------------
\* C15: tie-break independence.  Whatever order the events of equal distance
\* are in, the call returns what it returns with the stable order, and every
\* coverage check comes after all events at distances <= prevDist.
C15_TieOrderIrrelevant ==
    /\ Done => ((result = "true") <=>
                canCoverAll(distanceMin, distanceMax, lightMin, lightMax, cameras))
    /\ AtCheck => \A j \in i..Len(events) : events[j].dist > prevDist

\* A Remove processed before an Add of the same distance, inside the target.
C15_Witness ==
    /\ Done /\ PositiveArea /\ result = "true"
    /\ \E j \in 1..(Len(events) - 1) :
           /\ events[j].type = -1 /\ events[j + 1].type = 1
           /\ events[j].dist = events[j + 1].dist
           /\ distanceMin < events[j].dist /\ events[j].dist < distanceMax

-----------------------------------------------------------------------------
\* Positions of the cameras that pass the overlap test.
Kept == {k \in DOMAIN cameras : ~Outside(cameras[k])}

\* The position in the camera list of the k-th camera that passes.
KthKept(k) == CHOOSE j \in Kept : Cardinality({m \in Kept : m <= j}) = k

\* The point with doubled coordinates (x2, y2) lies in the closed rectangle.
InRect(x2, y2, d0, d1, l0, l1) ==
    2 * d0 <= x2 /\ x2 <= 2 * d1 /\ 2 * l0 <= y2 /\ y2 <= 2 * l1

\* The filter has run: the call is past both short-circuits of lines 26-29.
Filtered == pc # "start" /\ ~FullyDegenerate /\ cameras # <<>>

\* C16: clipper.  For a well-formed target and well-formed rectangles, the
\* clipped list holds one rectangle per input rectangle that passes the
\* overlap test, in input order; each lies within the target bounds with
\* dMin' <= dMax' and lMin' <= lMax' and is the intersection of its rectangle
\* with the target, point by point.  A rectangle that fails the test has no
\* entry in the list, and every Add and Remove event is the dMin or dMax of
\* an entry, two events per entry.
C16_ClipperIntersection ==
    (Filtered /\ TargetWellFormed) =>
        /\ Len(validCams) = Cardinality(Kept)
        /\ \A k \in DOMAIN validCams :
               LET c == validCams[k]
                   r == cameras[KthKept(k)]
               IN  /\ distanceMin <= c.dMin /\ c.dMin <= c.dMax /\ c.dMax <= distanceMax
                   /\ lightMin <= c.lMin /\ c.lMin <= c.lMax /\ c.lMax <= lightMax
                   /\ \A x2 \in 0..(2 * MaxCoord), y2 \in 0..(2 * MaxCoord) :
                          InRect(x2, y2, c.dMin, c.dMax, c.lMin, c.lMax) <=>
                              /\ InRect(x2, y2, r.dMin, r.dMax, r.lMin, r.lMax)
                              /\ InRect(x2, y2, distanceMin, distanceMax, lightMin, lightMax)
        /\ events # <<>> =>
               /\ Len(events) = 2 + 2 * Len(validCams)
               /\ \A a \in Coord \X Coord, d \in Coord :
                      /\ Cardinality({j \in DOMAIN events :
                                         /\ events[j].type = 1 /\ events[j].dist = d
                                         /\ LightOf(events[j]) = a})
                           = Cardinality({k \in DOMAIN validCams :
                                             validCams[k].dMin = d /\ LightOf(validCams[k]) = a})
                      /\ Cardinality({j \in DOMAIN events :
                                         /\ events[j].type = -1 /\ events[j].dist = d
                                         /\ LightOf(events[j]) = a})
                           = Cardinality({k \in DOMAIN validCams :
                                             validCams[k].dMax = d /\ LightOf(validCams[k]) = a})

\* A rectangle outside the target followed by one that sticks out of the
\* target on both axes: one entry, smaller than its rectangle.
C16_Witness ==
    /\ pc = "sweep" /\ PositiveArea
    /\ Len(cameras) = 2 /\ Len(validCams) = 1
    /\ Outside(cameras[1])
    /\ cameras[2].dMin < distanceMin /\ cameras[2].lMax > lightMax
    /\ validCams[1].dMin = distanceMin /\ validCams[1].lMax = lightMax

-----------------------------------------------------------------------------
\* val is a key of the lightIndex map.
HasIndex(val) == \E k \in DOMAIN uniqueLightValues : uniqueLightValues[k] = val

\* C17: coordinate compressor.  Once built, the light coordinate sequence is
\* strictly increasing and contains lightMin and lightMax; the tree has
\* n = length - 1 elementary intervals; every lMin and lMax of an Add or
\* Remove event has an index, within 0..n; and, the target being well-formed,
\* index(lMin) <= index(lMax).
C17_CompressorComplete ==
    (uniqueLightValues # <<>>) =>
        /\ \A k \in 1..(Len(uniqueLightValues) - 1) :
               uniqueLightValues[k] < uniqueLightValues[k + 1]
        /\ HasIndex(lightMin) /\ HasIndex(lightMax)
        /\ segTree.n = Len(uniqueLightValues) - 1
        /\ \A j \in DOMAIN events :
               events[j].type # 0 =>
                   /\ HasIndex(events[j].lMin) /\ HasIndex(events[j].lMax)
                   /\ LightIndex(uniqueLightValues, events[j].lMin) \in 0..segTree.n
                   /\ LightIndex(uniqueLightValues, events[j].lMax) \in 0..segTree.n
                   /\ TargetWellFormed =>
                          LightIndex(uniqueLightValues, events[j].lMin)
                              <= LightIndex(uniqueLightValues, events[j].lMax)

\* An update whose upper bound is a coordinate strictly inside the light
\* range that only this rectangle contributes.
C17_Witness ==
    /\ AfterUpdate /\ TargetWellFormed
    /\ Len(uniqueLightValues) = 3
    /\ lightMin < events[i - 1].lMax /\ events[i - 1].lMax < lightMax
    /\ \A k \in DOMAIN validCams : validCams[k].lMin # events[i - 1].lMax
    /\ LightIndex(uniqueLightValues, events[i - 1].lMax) = 1

-----------------------------------------------------------------------------
\* C18: termination.  Every call returns: the loop index only moves forward,
\* one event per iteration, up to the end of the event list, and every
\* SegmentTree update returns, those with an empty index range
\* (index(lMin) = index(lMax)) and those on a tree of n = 0 intervals included.
C18_Terminates ==
    /\ <>(pc = "done")
    /\ [](pc = "sweep" => i \in 1..(Len(events) + 1))
    /\ [](result # "pending" => pc = "done")

\* A call that returned after a sweep over a light range of length 0: n = 0
\* and every update has index(lMin) = index(lMax).
C18_Witness ==
    /\ Done /\ TargetWellFormed
    /\ lightMin = lightMax
    /\ segTree.n = 0
    /\ Len(events) = 6 /\ i = 7
    /\ \A j \in DOMAIN events :
           events[j].type # 0 =>
               LightIndex(uniqueLightValues, events[j].lMin)
                   = LightIndex(uniqueLightValues, events[j].lMax)

\* A call that returned after updates with an empty index range inside a
\* tree of two intervals.
C18_WitnessEmptyRange ==
    /\ Done /\ TargetWellFormed
    /\ segTree.n = 2
    /\ i > Len(events)
    /\ \E j \in DOMAIN events :
           /\ events[j].type # 0
           /\ LightIndex(uniqueLightValues, events[j].lMin) = 1
           /\ LightIndex(uniqueLightValues, events[j].lMax) = 1

-----------------------------------------------------------------------------
\* C19: countdown.  Once the input has been assigned, and until the component
\* is destroyed, the interval is running whenever deadline - now >= 1000: its
\* ticks keep calling setNow, so that isDeadlineTime comes to reflect the
\* deadline set last, also when the assignment is made after an earlier
\* countdown has reached its deadline.
C19_TicksWhileTimeLeft ==
    (ref # "undefined" /\ ~destroyed /\ deadline - now >= LastTick) => ref = "open"

-----------------------------------------------------------------------------
\* C20: latest value wins.  Once every scheduled setTimeout callback has run,
\* the deadline is the one computed by resetDeadline from the value assigned
\* last to the input.
C20_LatestValueWins ==
    (timeouts = {} /\ lastSeconds # -1) => deadlineSeconds = lastSeconds

====
